---- MODULE Spec2Model ----
(***************************************************************************)
(* Geospatial_Web_App: the local Flask server (src/api-server.py) and the  *)
(* cloud function (src/geospatial-cloud-server-image/src/main.py).         *)
(*                                                                         *)
(* Strings that the code takes apart (file names, paths) are sequences of  *)
(* tokens, one token per character wherever the code looks inside them.    *)
(* A file system is a function from the paths that exist to their content. *)
(* A raster band is the row-major sequence of its samples; the samples are *)
(* unsigned integers 0..MaxSample, as in the UInt32 rasters the code's     *)
(* comments name, and array arithmetic wraps modulo MaxSample + 1.         *)
(***************************************************************************)
EXTENDS Integers, Sequences, FiniteSets, TLC

VARIABLES store, bucket, tmp, castMode, req, resp, thr

vars == <<store, bucket, tmp, castMode, req, resp, thr>>

\* ------------------------------------------------------------------ bounds
MaxPixels == 3
MaxSample == 4

\* 8-bit output: the factor 255 of the rescale and the top of uint8
MaxByte == 255

\* ----------------------------------------------------------------- strings
Dot == "."

\* str.lower(), on the letters that occur in the file names of the model
LowerChar(c) ==
    CASE c = "A" -> "a"
      [] c = "T" -> "t"
      [] c = "I" -> "i"
      [] c = "F" -> "f"
      [] c = "S" -> "s"
      [] c = "H" -> "h"
      [] c = "P" -> "p"
      [] OTHER -> c

Lower(s) == [i \in DOMAIN s |-> LowerChar(s[i])]

\* str.endswith(suffix)
EndsWith(s, suf) ==
    /\ Len(suf) <= Len(s)
    /\ SubSeq(s, Len(s) - Len(suf) + 1, Len(s)) = suf

\* str.endswith(tuple of suffixes)
EndsWithAny(s, sufs) == \E suf \in sufs : EndsWith(s, suf)

\* s[i:].startswith(pat), i counted from 1
MatchAt(s, pat, i) ==
    /\ i + Len(pat) - 1 <= Len(s)
    /\ SubSeq(s, i, i + Len(pat) - 1) = pat

\* str.replace(old, new): every non-overlapping occurrence, left to right
RECURSIVE ReplaceFrom(_, _, _, _)
ReplaceFrom(s, old, new, i) ==
    IF i > Len(s) THEN <<>>
    ELSE IF MatchAt(s, old, i)
         THEN new \o ReplaceFrom(s, old, new, i + Len(old))
         ELSE <<s[i]>> \o ReplaceFrom(s, old, new, i + 1)

Replace(s, old, new) == ReplaceFrom(s, old, new, 1)

\* os.path.splitext(name)[1] for a name without a directory separator: the
\* suffix from the last dot, unless only dots precede that dot
SplitExt(name) ==
    LET dots == {i \in DOMAIN name : name[i] = Dot}
    IN  IF dots = {} THEN <<>>
        ELSE LET d == CHOOSE i \in dots : \A j \in dots : j <= i
             IN  IF \E k \in 1..(d - 1) : name[k] # Dot
                 THEN SubSeq(name, d, Len(name))
                 ELSE <<>>

\* ------------------------------------------------------------- file names
ExtTif == <<".", "t", "i", "f">>
ExtTiff == <<".", "t", "i", "f", "f">>
ExtGeojson == <<".", "g", "e", "o", "j", "s", "o", "n">>
ExtGpkg == <<".", "g", "p", "k", "g">>
ExtShp == <<".", "s", "h", "p">>

VECTOR_FILES == {ExtGeojson, ExtGpkg, ExtShp}

\* A faulty variant of RASTER_FILES: .tiff taken into the raster family
RASTER_FILES_WithTiff == {ExtTif, ExtTiff}

RASTER_FILES == {ExtTif}

FileNames ==
    { <<"a">> \o ExtTif,
      <<"A", ".", "T", "I", "F">>,
      <<"a">> \o ExtTiff,
      <<"A", ".", "T", "I", "F", "F">>,
      <<"a">> \o ExtGeojson,
      <<"a">> \o ExtGpkg,
      <<"a">> \o ExtShp,
      <<"a", ".", "S", "H", "P">>,
      <<"a", ".", "t", "x", "t">>,
      <<"a">>,
      ExtTif }

RunIds == { <<"r">> }

TifName == <<"a">> \o ExtTif


\* ---------------------------------------------------------------- contents
\* What a file holds.  kind: "tif" (single-band GeoTIFF), "png" (a PNG that
\* process_tif_to_png wrote), "vec" (a vector data set), "other" (anything
\* else).  px: the band's samples; nodata: <<>> when the raster defines no
\* no-data value, else <<value>>; crs: the CRS identifier, "none" when the
\* file carries none; geo: the bounds of a raster, the coordinates of a
\* vector data set, in the units of crs.
CRSs == {"EPSG:4326", "EPSG:3857", "none"}

Samples == 0..MaxSample

PixelArrays == UNION { [1..n -> Samples] : n \in 1..MaxPixels }

NoDataValues == {<<>>} \cup { <<v>> : v \in Samples }

GeoValue == <<2, 4>>

Tif(px, nodata, crs) ==
    [kind |-> "tif", px |-> px, nodata |-> nodata, crs |-> crs, geo |-> GeoValue]

Vec(crs) ==
    [kind |-> "vec", px |-> <<>>, nodata |-> <<>>, crs |-> crs, geo |-> GeoValue]

Other == [kind |-> "other", px |-> <<>>, nodata |-> <<>>, crs |-> "none", geo |-> <<>>]

AllRasters == { Tif(px, nd, "EPSG:3857") : px \in PixelArrays, nd \in NoDataValues }

\* rasterio.open(path) succeeds on a GeoTIFF and on a PNG, raises otherwise
IsRaster(c) == c.kind \in {"tif", "png"}

\* gpd.read_file(path) succeeds on a vector data set, raises otherwise
IsVector(c) == c.kind = "vec"

\* The sample type's modulus: a PNG written by the code holds uint8 samples
Modulus(c) == IF c.kind = "png" THEN MaxByte + 1 ELSE MaxSample + 1

\* --------------------------------------------------- raster normalisation
\* A numpy reduction's result: a number, or numpy.ma.masked when every
\* element of the masked array is masked
Masked == [masked |-> TRUE, v |-> 0]
Val(n) == [masked |-> FALSE, v |-> n]

SetMin(S) == CHOOSE x \in S : \A y \in S : x <= y
SetMax(S) == CHOOSE x \in S : \A y \in S : y <= x

\* np.ma.masked_equal(image_array, nodata_val): the samples left unmasked
ValidData(image_array, nodata_val) ==
    { image_array[i] : i \in { j \in DOMAIN image_array : <<image_array[j]>> # nodata_val } }

AllData(image_array) == { image_array[i] : i \in DOMAIN image_array }

\* A faulty variant of MinVal: the minimum over every sample, no-data included
MinVal_Unmasked(image_array, nodata_val) == Val(SetMin(AllData(image_array)))

MinVal(image_array, nodata_val) ==
    IF nodata_val # <<>>
    THEN IF ValidData(image_array, nodata_val) = {} THEN Masked
         ELSE Val(SetMin(ValidData(image_array, nodata_val)))
    ELSE Val(SetMin(AllData(image_array)))

MaxVal(image_array, nodata_val) ==
    IF nodata_val # <<>>
    THEN IF ValidData(image_array, nodata_val) = {} THEN Masked
         ELSE Val(SetMax(ValidData(image_array, nodata_val)))
    ELSE Val(SetMax(AllData(image_array)))

\* range_val = max_val - min_val, in the sample type; masked if either is
RangeVal(max_val, min_val, m) ==
    IF max_val.masked \/ min_val.masked THEN Masked
    ELSE Val((max_val.v - min_val.v) % m)

\* A faulty variant of RangeRejected: `if range_val < 0:`
RangeRejected_Strict(range_val) == ~range_val.masked /\ range_val.v < 0

\* `if range_val <= 0:` -- the comparison with numpy.ma.masked yields masked,
\* whose truth value is False
RangeRejected(range_val) == ~range_val.masked /\ range_val.v <= 0

\* ((image_array - min_val) / range_val) * 255 for one sample, as the exact
\* fraction num/den.  The subtraction is done in the sample type and wraps;
\* with a masked operand the masked result keeps the array's own data.
ScaledSample(s, min_val, range_val, m) ==
    IF range_val.masked THEN [num |-> s, den |-> 1]
    ELSE [num |-> ((s - min_val.v) % m) * MaxByte, den |-> range_val.v]

\* A faulty variant of AsUint8: rounding to the nearest integer before the cast
AsUint8_Rounded(q, mode) ==
    IF q.den = 0 THEN (IF mode = "wrap" THEN 0 ELSE MaxByte)
    ELSE LET t == (2 * q.num + q.den) \div (2 * q.den)
         IN  IF t <= MaxByte THEN t
             ELSE IF mode = "wrap" THEN t % (MaxByte + 1) ELSE MaxByte

\* .astype(np.uint8): truncation toward zero; a value above 255 is out of
\* range of the cast, and what comes out depends on the build (castMode)
\* (a division by zero gives inf or nan, no exception, and is out of range too)
AsUint8(q, mode) ==
    IF q.den = 0 THEN (IF mode = "wrap" THEN 0 ELSE MaxByte)
    ELSE LET t == q.num \div q.den
         IN  IF t <= MaxByte THEN t
             ELSE IF mode = "wrap" THEN t % (MaxByte + 1) ELSE MaxByte

\* A faulty variant of ApplyNoDataMask: the no-data rule left out
ApplyNoDataMask_Skipped(image_array_8bit, image_array, nodata_val) == image_array_8bit

\* image_array_8bit[image_array == nodata_val] = 0
ApplyNoDataMask(image_array_8bit, image_array, nodata_val) ==
    [i \in DOMAIN image_array_8bit |->
        IF nodata_val # <<>> /\ <<image_array[i]>> = nodata_val
        THEN 0 ELSE image_array_8bit[i]]

\* The 8-bit array that process_tif_to_png writes for an accepted raster c
Rescale8(c, mode) ==
    LET min_val   == MinVal(c.px, c.nodata)
        max_val   == MaxVal(c.px, c.nodata)
        range_val == RangeVal(max_val, min_val, Modulus(c))
        scaled8   == [i \in DOMAIN c.px |->
                        AsUint8(ScaledSample(c.px[i], min_val, range_val, Modulus(c)), mode)]
    IN  ApplyNoDataMask(scaled8, c.px, c.nodata)

RangeOf(c) == RangeVal(MaxVal(c.px, c.nodata), MinVal(c.px, c.nodata), Modulus(c))

\* The PNG that rasterio writes: the source's profile with dtype uint8,
\* driver PNG and nodata 0
PngOf(c, mode) ==
    [kind |-> "png", px |-> Rescale8(c, mode), nodata |-> <<0>>, crs |-> c.crs, geo |-> c.geo]

\* ------------------------------------------------------------ reprojection
\* transform_bounds(src_crs, 'EPSG:4326', ...) and GeoDataFrame.to_crs(4326):
\* the coordinates of geo, given in crs, expressed in EPSG:4326.  The map
\* from the projected system halves every coordinate; EPSG:4326 maps to
\* itself.  Only called with a crs other than "none" (the libraries raise
\* on a missing CRS).
ToWGS84(geo, crs) ==
    [i \in DOMAIN geo |-> IF crs = "EPSG:4326" THEN geo[i] ELSE geo[i] \div 2]

\* ---------------------------------------------------------------- responses
Response(status, kind, error, px, b64, geo) ==
    [status |-> status, kind |-> kind, error |-> error, px |-> px, b64 |-> b64, geo |-> geo]

ErrorResponse(status, error) == Response(status, "error", error, <<>>, FALSE, <<>>)

NoResponse == Response(0, "none", "", <<>>, FALSE, <<>>)

\* The request last handled, with what storage held for it when it arrived
\* (had: the source existed; src: its content; dl: the outcome S3 was going
\* to give the download)
Request(dep, route, run, name, had, src, dl) ==
    [dep |-> dep, route |-> route, run |-> run, name |-> name, had |-> had,
     src |-> src, dl |-> dl]

NoRequest == Request("none", "", <<>>, <<>>, FALSE, Other, "ok")

\* A function result (value, error): path is <<>> and error is "" for None
Result(path, error, fs, geo) == [path |-> path, error |-> error, fs |-> fs, geo |-> geo]

TempSuffix == <<"_temp_output", ".", "p", "n", "g">>

\* ------------------------------------------------------------ local server
DATA_FOLDER == <<"data_storage">>

\* os.path.join(DATA_FOLDER, run_id, file_name)
FullPath(run_id, file_name) == DATA_FOLDER \o <<"/">> \o run_id \o <<"/">> \o file_name

LocalTempPngPath(file_path) == Replace(file_path, ExtTif, TempSuffix)

\* api-server.py process_tif_to_png.  The integrity check reopens the PNG
\* that was just written and cannot fail on it.
LocalProcessTif(fs, file_path, mode) ==
    IF file_path \notin DOMAIN fs
    THEN Result(<<>>, "Raster source file not found.", fs, <<>>)
    ELSE LET temp_png_path == LocalTempPngPath(file_path)
             src == fs[file_path]
         IN  IF ~IsRaster(src)
             THEN Result(<<>>, "Error processing TIF to PNG: ", fs, <<>>)
             ELSE IF RangeRejected(RangeOf(src))
             THEN Result(<<>>, "TIF data is uniform (single class) and cannot be scaled.", fs, <<>>)
             ELSE Result(temp_png_path, "",
                         (temp_png_path :> PngOf(src, mode)) @@ fs, <<>>)

\* api-server.py get_geojson_data: no reprojection
LocalGetGeojson(fs, file_path) ==
    IF file_path \notin DOMAIN fs
    THEN Result(<<>>, "Vector source file not found.", fs, <<>>)
    ELSE IF ~IsVector(fs[file_path])
    THEN Result(<<>>, "Error processing vector file: ", fs, <<>>)
    ELSE Result(<<>>, "", fs, fs[file_path].geo)

SourceOf(fs, path) == IF path \in DOMAIN fs THEN fs[path] ELSE Other

\* GET /api/get-data/<run_id>/<file_name>
LocalGetData(run_id, file_name) ==
    LET full_path == FullPath(run_id, file_name)
        file_ext  == Lower(SplitExt(file_name))
        tif       == LocalProcessTif(store, full_path, castMode)
        vec       == LocalGetGeojson(store, full_path)
    IN  /\ req' = Request("local", "/api/get-data", run_id, file_name,
                          full_path \in DOMAIN store, SourceOf(store, full_path), "ok")
        /\ IF file_ext = ExtTif
           THEN /\ store' = tif.fs
                /\ resp' = IF tif.error # ""
                           THEN ErrorResponse(500, tif.error)
                           ELSE Response(200, "png", "", tif.fs[tif.path].px, FALSE, <<>>)
           ELSE IF file_ext \in {ExtGeojson, ExtGpkg, ExtShp}
           THEN /\ store' = store
                /\ resp' = IF vec.error # ""
                           THEN ErrorResponse(500, vec.error)
                           ELSE Response(200, "geojson", "", <<>>, FALSE, vec.geo)
           ELSE /\ store' = store
                /\ resp' = ErrorResponse(400, "Unsupported file type requested")
        /\ UNCHANGED <<bucket, tmp, castMode, thr>>

\* GET /api/metadata/<run_id>/<file_name>
LocalGetMetadata(run_id, file_name) ==
    LET full_path == FullPath(run_id, file_name)
    IN  /\ req' = Request("local", "/api/metadata", run_id, file_name,
                          full_path \in DOMAIN store, SourceOf(store, full_path), "ok")
        /\ resp' = IF full_path \notin DOMAIN store
                   THEN ErrorResponse(404, "Raster source file not found.")
                   ELSE IF ~IsRaster(store[full_path]) \/ store[full_path].crs = "none"
                   THEN ErrorResponse(500, "Error reading TIF metadata: ")
                   ELSE Response(200, "metadata", "", <<>>, FALSE,
                                 ToWGS84(store[full_path].geo, store[full_path].crs))
        /\ UNCHANGED <<store, bucket, tmp, castMode, thr>>

\* ----------------------------------------------------------- cloud function
EmptyFS == [p \in {} |-> Other]

\* os.remove(path), guarded by os.path.exists(path) or known to exist
Remove(fs, path) == [q \in DOMAIN fs \ {path} |-> fs[q]]

\* f"data_storage/{run_id}/{file_name}"
S3Key(run_id, file_name) == <<"data_storage", "/">> \o run_id \o <<"/">> \o file_name

\* f"/tmp/{run_id}_{file_name}"
LocalPath(run_id, file_name) == <<"/tmp/">> \o run_id \o <<"_">> \o file_name

CloudTempPngPath(file_path) == file_path \o TempSuffix

\* `marker in path`
Contains(path, marker) == \E i \in DOMAIN path : MatchAt(path, marker, i)

RouteGetData == <<"/api/get-data">>
RouteMetadata == <<"/api/metadata">>
RouteOther == <<"/health">>

Routes == {RouteGetData, RouteMetadata, RouteOther}

\* The request path API Gateway hands over for a route and its parameters
EventPath(route, run_id, file_name) == route \o <<"/">> \o run_id \o <<"/">> \o file_name

\* main.py get_metadata
CloudGetMetadata(fs, local_path) ==
    IF ~IsRaster(fs[local_path]) \/ fs[local_path].crs = "none"
    THEN Result(<<>>, "metadata error", fs, <<>>)
    ELSE Result(<<>>, "", fs, ToWGS84(fs[local_path].geo, fs[local_path].crs))

\* main.py process_tif_to_png.  io = "write": writing the PNG raises when the
\* file has been created (/tmp is full); the except clause returns the error
\* and the partial file stays.
CloudProcessTif(fs, file_path, mode, io) ==
    IF file_path \notin DOMAIN fs
    THEN Result(<<>>, "Raster source file not found.", fs, <<>>)
    ELSE LET temp_png_path == CloudTempPngPath(file_path)
             src == fs[file_path]
         IN  IF ~IsRaster(src)
             THEN Result(<<>>, "Error processing TIF: ", fs, <<>>)
             ELSE IF RangeRejected(RangeOf(src))
             THEN Result(<<>>, "TIF data is uniform and cannot be scaled.", fs, <<>>)
             ELSE IF io = "write"
             THEN Result(<<>>, "Error processing TIF: ", (temp_png_path :> Other) @@ fs, <<>>)
             ELSE Result(temp_png_path, "",
                         (temp_png_path :> PngOf(src, mode)) @@ fs, <<>>)

\* main.py get_geojson_data: reprojects unless the CRS is EPSG:4326; to_crs
\* raises on a data set without CRS
CloudGetGeojson(fs, file_path) ==
    IF file_path \notin DOMAIN fs
    THEN Result(<<>>, "Vector source file not found.", fs, <<>>)
    ELSE IF ~IsVector(fs[file_path])
    THEN Result(<<>>, "Error processing vector file: ", fs, <<>>)
    ELSE IF fs[file_path].crs # "EPSG:4326"
    THEN IF fs[file_path].crs = "none"
         THEN Result(<<>>, "Error processing vector file: ", fs, <<>>)
         ELSE Result(<<>>, "", fs, ToWGS84(fs[file_path].geo, fs[file_path].crs))
    ELSE Result(<<>>, "", fs, fs[file_path].geo)

\* s3.download_file raises when the key does not exist or the transfer fails
DownloadFails(s3_key, dl) == s3_key \notin DOMAIN bucket \/ dl = "fail"

\* What the environment does to one invocation: "ok" nothing, "fail" the
\* download fails, "write" the write of the PNG raises, "read" reading the
\* PNG back in the handler raises
Faults == {"ok", "fail", "write", "read"}

\* A faulty variant of ExceptCleanup: the downloaded copy is left in place
ExceptCleanup_Forgotten(fs, local_path) == fs

\* `except Exception`: if os.path.exists(local_path): os.remove(local_path)
ExceptCleanup(fs, local_path) ==
    IF local_path \in DOMAIN fs THEN Remove(fs, local_path) ELSE fs

\* lambda_handler(event, context); dl is what the environment does (Faults)
LambdaHandler(route, run_id, file_name, dl) ==
    LET path       == EventPath(route, run_id, file_name)
        s3_key     == S3Key(run_id, file_name)
        local_path == LocalPath(run_id, file_name)
        tmp1       == (local_path :> bucket[s3_key]) @@ tmp
        md         == CloudGetMetadata(tmp1, local_path)
        tif        == CloudProcessTif(tmp1, local_path, castMode, dl)
        vec        == CloudGetGeojson(tmp1, local_path)
    IN  /\ req' = Request("cloud", route[1], run_id, file_name,
                          s3_key \in DOMAIN bucket, SourceOf(bucket, s3_key), dl)
        /\ UNCHANGED <<store, bucket, castMode, thr>>
        /\ IF run_id = <<>> \/ file_name = <<>>
           THEN /\ resp' = ErrorResponse(400, "Missing run_id or file_name")
                /\ tmp' = tmp
           ELSE IF DownloadFails(s3_key, dl)
           THEN /\ resp' = ErrorResponse(500, "download failed")
                /\ tmp' = ExceptCleanup(tmp, local_path)
           ELSE IF Contains(path, RouteMetadata) /\ EndsWithAny(file_name, RASTER_FILES)
           THEN /\ tmp' = Remove(tmp1, local_path)
                /\ resp' = IF md.error # ""
                           THEN ErrorResponse(500, md.error)
                           ELSE Response(200, "metadata", "", <<>>, FALSE, md.geo)
           ELSE IF Contains(path, RouteGetData) /\ EndsWithAny(file_name, RASTER_FILES)
           THEN IF tif.error # ""
                THEN /\ tmp' = Remove(tif.fs, local_path)
                     /\ resp' = ErrorResponse(500, tif.error)
                ELSE IF dl = "read"
                THEN /\ tmp' = ExceptCleanup(tif.fs, local_path)
                     /\ resp' = ErrorResponse(500, "read failed")
                ELSE /\ tmp' = Remove(Remove(tif.fs, local_path), tif.path)
                     /\ resp' = Response(200, "png", "", tif.fs[tif.path].px, TRUE, <<>>)
           ELSE IF Contains(path, RouteGetData) /\ EndsWithAny(file_name, VECTOR_FILES)
           THEN /\ tmp' = Remove(tmp1, local_path)
                /\ resp' = IF vec.error # ""
                           THEN ErrorResponse(500, vec.error)
                           ELSE Response(200, "geojson", "", <<>>, FALSE, vec.geo)
           ELSE /\ tmp' = Remove(tmp1, local_path)
                /\ resp' = ErrorResponse(404, "Route or file type mismatch")

\* ------------------------------------------- local server, request threads
\* The development server that app.run starts handles each request on a
\* thread of its own.  A thread is idle, or has run process_tif_to_png for
\* its request (pc = "processed") and has yet to send the file.
Threads == {"t1", "t2"}

Thread(pc, run, name, png_path, error, src, sent) ==
    [pc |-> pc, run |-> run, name |-> name, png_path |-> png_path, error |-> error,
     src |-> src, sent |-> sent]

Idle == Thread("idle", <<>>, <<>>, <<>>, "", Other, Other)

\* get_data on thread t, raster path, up to the return of process_tif_to_png
ThreadProcess(t, run_id, file_name) ==
    LET full_path == FullPath(run_id, file_name)
        file_ext  == Lower(SplitExt(file_name))
        tif       == LocalProcessTif(store, full_path, castMode)
    IN  /\ thr[t].pc = "idle"
        /\ file_ext = ExtTif
        /\ store' = tif.fs
        /\ thr' = [thr EXCEPT ![t] = Thread("processed", run_id, file_name, tif.path,
                                             tif.error, SourceOf(store, full_path), Other)]
        /\ UNCHANGED <<bucket, tmp, castMode, req, resp>>

\* The rest of get_data on thread t: the error response, or
\* send_file(png_path), which reads the file at png_path as it is by then
ThreadSend(t) ==
    /\ thr[t].pc = "processed"
    /\ thr' = [thr EXCEPT ![t].pc = "sent",
                          ![t].sent = IF thr[t].error = "" THEN store[thr[t].png_path]
                                      ELSE Other]
    /\ UNCHANGED <<store, bucket, tmp, castMode, req, resp>>

\* The response has gone out; the thread takes the next request
ThreadReturn(t) ==
    /\ thr[t].pc = "sent"
    /\ thr' = [thr EXCEPT ![t] = Idle]
    /\ UNCHANGED <<store, bucket, tmp, castMode, req, resp>>

\* ------------------------------------------------------------ specification
CastModes == {"wrap", "saturate"}

\* Contents of the service-level specification: an ordinary raster, one with
\* a no-data value, a uniform one, one that is all no-data, one without CRS,
\* vector data sets in each CRS, and a file that is neither
CoarseContents ==
    { Tif(<<1, 2, 4>>, <<>>, "EPSG:3857"),
      Tif(<<0, 2, 3>>, <<0>>, "EPSG:4326"),
      Tif(<<2, 2>>, <<>>, "EPSG:3857"),
      Tif(<<3, 3>>, <<3>>, "EPSG:3857"),
      Tif(<<1, 3>>, <<>>, "none"),
      Vec("EPSG:4326"), Vec("EPSG:3857"), Vec("none"),
      Other }

\* One file, stored under the same run and name in the local data folder and
\* in the bucket; /tmp of the cloud function is empty
InitStorage(Names, Contents) ==
    /\ castMode \in CastModes
    /\ \E run_id \in RunIds, file_name \in Names, c \in Contents :
           /\ store = (FullPath(run_id, file_name) :> c)
           /\ bucket = (S3Key(run_id, file_name) :> c)
    /\ tmp = EmptyFS
    /\ req = NoRequest
    /\ resp = NoResponse
    /\ thr = [t \in Threads |-> Idle]

Init == InitStorage(FileNames, CoarseContents)

\* The names for which the cloud function writes and reads a PNG, the only
\* requests a write or read fault can strike
PngRequestNames == { n \in FileNames : EndsWithAny(n, RASTER_FILES) }

\* pathParameters without run_id, without file_name, without both
MissingParams == { <<<<>>, TifName>>, <<<<"r">>, <<>>>>, <<<<>>, <<>>>> }

Next ==
    \/ \E run_id \in RunIds, file_name \in FileNames : LocalGetData(run_id, file_name)
    \/ \E run_id \in RunIds, file_name \in FileNames : LocalGetMetadata(run_id, file_name)
    \/ \E route \in Routes, run_id \in RunIds, file_name \in FileNames, dl \in {"ok", "fail"} :
          LambdaHandler(route, run_id, file_name, dl)
    \/ \E run_id \in RunIds, file_name \in PngRequestNames, dl \in {"write", "read"} :
          LambdaHandler(RouteGetData, run_id, file_name, dl)
    \/ \E route \in Routes, params \in MissingParams :
          LambdaHandler(route, params[1], params[2], "ok")

Spec == Init /\ [][Next]_vars

\* The raster normaliser over every raster of the bounds: image requests for
\* the stored raster, in both deployments
InitRaster == InitStorage({TifName}, AllRasters)

NextRaster ==
    \/ \E run_id \in RunIds : LocalGetData(run_id, TifName)
    \/ \E run_id \in RunIds, dl \in {"ok", "fail"} :
          LambdaHandler(RouteGetData, run_id, TifName, dl)

SpecRaster == InitRaster /\ [][NextRaster]_vars

\* The local server under concurrent image requests: two request threads, a
\* raster stored under a name that get_data sends to the raster handler
UpperTifName == <<"A", ".", "T", "I", "F">>

InitConc == InitStorage({TifName, UpperTifName}, CoarseContents)

NextConc ==
    \E t \in Threads :
        \/ \E run_id \in RunIds, file_name \in {TifName, UpperTifName} :
               ThreadProcess(t, run_id, file_name)
        \/ ThreadSend(t)
        \/ ThreadReturn(t)

SpecConc == InitConc /\ [][NextConc]_vars

\* ------------------------------------------------------------------ claims
\* Sample i of raster c is a valid sample: c defines no no-data value, or
\* the sample differs from it
IsValidSample(c, i) == c.nodata = <<>> \/ c.px[i] # c.nodata[1]

ValidIndexes(c) == { i \in DOMAIN c.px : IsValidSample(c, i) }

\* Least and greatest valid sample of a raster that has one
Lo(c) == CHOOSE x \in { c.px[i] : i \in ValidIndexes(c) } :
             \A i \in ValidIndexes(c) : x <= c.px[i]
Hi(c) == CHOOSE x \in { c.px[i] : i \in ValidIndexes(c) } :
             \A i \in ValidIndexes(c) : c.px[i] <= x

UniformErrors ==
    { "TIF data is uniform (single class) and cannot be scaled.",
      "TIF data is uniform and cannot be scaled." }

\* The last request was an image request whose source reached
\* process_tif_to_png as a readable raster
NormalisedRaster ==
    /\ req.dep \in {"local", "cloud"}
    /\ req.route = "/api/get-data"
    /\ req.had /\ req.dl = "ok"
    /\ IsRaster(req.src)

\* The last request was answered with the image process_tif_to_png wrote
ImageSent == NormalisedRaster /\ resp.kind = "png"

\* The value of sample i before the no-data rule is applied
Unmasked8(c, i, mode) ==
    AsUint8(ScaledSample(c.px[i], MinVal(c.px, c.nodata), RangeOf(c), Modulus(c)), mode)

\* C1 -- No-data fidelity: in the image of a raster with a defined no-data
\* value, every pixel whose sample equals the no-data value is 0, and every
\* other pixel keeps its rescaled value.
C1_NoDataFidelity ==
    (ImageSent /\ req.src.nodata # <<>>) =>
        /\ DOMAIN resp.px = DOMAIN req.src.px
        /\ \A i \in DOMAIN req.src.px :
              IF req.src.px[i] = req.src.nodata[1]
              THEN resp.px[i] = 0
              ELSE resp.px[i] = Unmasked8(req.src, i, castMode)

\* C1 witness: an image with a valid non-zero pixel and a no-data pixel whose
\* rescaled value was not 0
C1_Witness ==
    /\ ImageSent /\ req.src.nodata # <<>>
    /\ \E i \in DOMAIN req.src.px :
          /\ req.src.px[i] = req.src.nodata[1]
          /\ Unmasked8(req.src, i, castMode) # 0
          /\ resp.px[i] = 0
    /\ \E i \in DOMAIN req.src.px :
          req.src.px[i] # req.src.nodata[1] /\ resp.px[i] > 0

\* C2 -- Range mapping: for an accepted raster with a valid sample, min and
\* max are the least and greatest valid sample, every sample equal to min
\* maps to 0 and every sample equal to max maps to 255.
C2_RangeMapping ==
    (ImageSent /\ ValidIndexes(req.src) # {}) =>
        /\ MinVal(req.src.px, req.src.nodata) = Val(Lo(req.src))
        /\ MaxVal(req.src.px, req.src.nodata) = Val(Hi(req.src))
        /\ \A i \in ValidIndexes(req.src) :
              /\ req.src.px[i] = Lo(req.src) => resp.px[i] = 0
              /\ req.src.px[i] = Hi(req.src) => resp.px[i] = MaxByte

\* C2 witness: an image of a raster whose no-data value lies below its least
\* valid sample, with a pixel at 255
C2_Witness ==
    /\ ImageSent /\ req.src.nodata # <<>> /\ ValidIndexes(req.src) # {}
    /\ req.src.nodata[1] < Lo(req.src)
    /\ \E i \in DOMAIN req.src.px : req.src.px[i] = req.src.nodata[1]
    /\ \E i \in ValidIndexes(req.src) : req.src.px[i] = Hi(req.src) /\ resp.px[i] = MaxByte

\* out is an integer nearest to num/den (either neighbour on a tie)
IsNearest(out, num, den) ==
    LET diff == out * den - num
    IN  2 * (IF diff < 0 THEN -diff ELSE diff) <= den

\* C3 (as stated) -- every valid sample of an accepted raster is written as
\* round((sample - min) / range * 255), the nearest integer, within [0,255].
C3_RoundedRescale ==
    (ImageSent /\ ValidIndexes(req.src) # {}) =>
        \A i \in ValidIndexes(req.src) :
            /\ resp.px[i] \in 0..MaxByte
            /\ IsNearest(resp.px[i], (req.src.px[i] - Lo(req.src)) * MaxByte,
                         Hi(req.src) - Lo(req.src))

\* C3 (amended) -- every valid sample of an accepted raster is written as
\* (sample - min) / range * 255 truncated toward zero, within [0,255].
C3_TruncatedRescale ==
    (ImageSent /\ ValidIndexes(req.src) # {}) =>
        \A i \in ValidIndexes(req.src) :
            /\ resp.px[i] \in 0..MaxByte
            /\ resp.px[i] = ((req.src.px[i] - Lo(req.src)) * MaxByte)
                                \div (Hi(req.src) - Lo(req.src))

\* C3 witness: an image with a valid sample whose rescaled value has a
\* fractional part above one half
C3_Witness ==
    /\ ImageSent
    /\ \E i \in ValidIndexes(req.src) :
          2 * (((req.src.px[i] - Lo(req.src)) * MaxByte) % (Hi(req.src) - Lo(req.src)))
              > Hi(req.src) - Lo(req.src)

\* The raster has a valid sample and all its valid samples are equal
UniformRaster(c) == ValidIndexes(c) # {} /\ Lo(c) = Hi(c)

\* C4 -- Uniform-data rejection: a request that hands a raster with a valid
\* sample and all valid samples equal to process_tif_to_png is answered with
\* the uniform-data failure and leaves no file behind that was not there.
C4_UniformRejected ==
    [][ (NormalisedRaster' /\ UniformRaster(req'.src)) =>
            /\ resp'.kind = "error"
            /\ resp'.error \in UniformErrors
            /\ store' = store
            /\ tmp' = tmp ]_vars

\* C4 witness: a uniform raster with a no-data pixel was rejected
C4_Witness ==
    /\ NormalisedRaster /\ UniformRaster(req.src)
    /\ req.src.nodata # <<>> /\ ValidIndexes(req.src) # DOMAIN req.src.px
    /\ resp.error \in UniformErrors

\* C5 -- All-no-data rejection: a raster with a defined no-data value whose
\* samples all equal it fails with the uniform-data failure; no image is
\* emitted.
C5_AllNoDataRejected ==
    (NormalisedRaster /\ req.src.nodata # <<>> /\ ValidIndexes(req.src) = {}) =>
        /\ resp.kind = "error"
        /\ resp.error \in UniformErrors

\* The outcomes of the handlers, by what the response carries
RasterErrors ==
    UniformErrors \cup { "Raster source file not found.",
                         "Error processing TIF to PNG: ", "Error processing TIF: " }

VectorErrors == { "Vector source file not found.", "Error processing vector file: " }

MetadataErrors ==
    { "Raster source file not found.", "Error reading TIF metadata: ", "metadata error" }

UnsupportedErrors == { "Unsupported file type requested", "Route or file type mismatch" }

NotFoundErrors == { "Raster source file not found.", "Vector source file not found." }

RasterHandled == resp.kind = "png" \/ resp.error \in RasterErrors
VectorHandled == resp.kind = "geojson" \/ resp.error \in VectorErrors
MetadataHandled == resp.kind = "metadata" \/ resp.error \in MetadataErrors

\* The extension of the requested name, letter case folded
ReqExt == Lower(SplitExt(req.name))

\* The last request got as far as the dispatch on the file name: always in
\* the local server; in the cloud function once both parameters were there
\* and the download succeeded
DispatchReached ==
    \/ req.dep = "local"
    \/ /\ req.dep = "cloud"
       /\ req.run # <<>> /\ req.name # <<>>
       /\ req.had /\ req.dl = "ok"

\* The requested name does not begin with a dot (whether the whole of
\* ".tif" is an extension is a matter of convention; the claims are read on
\* the names where it is not)
PlainName == req.name # <<>> /\ req.name[1] # Dot

\* C6 -- Dispatch completeness: on the image endpoint of both deployments a
\* name with extension .tif goes to the raster handler, one with .geojson,
\* .gpkg or .shp to the vector handler, in any letter case, and a name with
\* any other extension or none is reported as an unsupported type.
C6_DispatchComplete ==
    (DispatchReached /\ PlainName /\ req.route = "/api/get-data") =>
        /\ ReqExt = ExtTif => RasterHandled
        /\ ReqExt \in {ExtGeojson, ExtGpkg, ExtShp} => VectorHandled
        /\ ReqExt \notin {ExtTif, ExtGeojson, ExtGpkg, ExtShp} =>
               resp.error \in UnsupportedErrors

\* C7 (as stated) -- a name with extension .tiff, in any letter case, is
\* handled as a raster on the image and the metadata endpoint of both
\* deployments.
C7_TiffIsRaster ==
    (DispatchReached /\ ReqExt = ExtTiff) =>
        /\ req.route = "/api/get-data" => RasterHandled
        /\ req.route = "/api/metadata" => MetadataHandled

\* C7 (amended) -- a name with extension .tiff, in any letter case, is not
\* classified as a raster: the local image endpoint answers 400 unsupported
\* type, the cloud function answers 404 route or file type mismatch on its
\* image and its metadata endpoint once the download succeeded; only the
\* local metadata endpoint, which does not look at the extension, handles it
\* as it handles any file (404 when missing, the bounds of a raster with a
\* CRS, 500 otherwise).
C7_TiffUnsupported ==
    (DispatchReached /\ ReqExt = ExtTiff /\ req.route \in {"/api/get-data", "/api/metadata"}) =>
        IF req.dep = "cloud"
        THEN resp.status = 404 /\ resp.error = "Route or file type mismatch"
        ELSE IF req.route = "/api/get-data"
        THEN resp.status = 400 /\ resp.error = "Unsupported file type requested"
        ELSE IF ~req.had
        THEN resp.status = 404 /\ resp.error = "Raster source file not found."
        ELSE IF IsRaster(req.src) /\ req.src.crs # "none"
        THEN resp.status = 200 /\ resp.kind = "metadata"
        ELSE resp.status = 500 /\ resp.error = "Error reading TIF metadata: "

\* C7 witness: the cloud function downloaded a GeoTIFF named *.tiff for the
\* image endpoint and answered 404
C7_Witness ==
    /\ req.dep = "cloud" /\ DispatchReached /\ ReqExt = ExtTiff
    /\ req.route = "/api/get-data"
    /\ req.src.kind = "tif"
    /\ resp.status = 404

\* A name whose extension is none of the supported ones (.tiff counted with
\* the supported ones, as C7 has it)
UnsupportedName(name) ==
    Lower(SplitExt(name)) \notin {ExtTif, ExtTiff, ExtGeojson, ExtGpkg, ExtShp}

\* C8 -- a request for a name with an unsupported extension ends in a 4xx
\* response, never a 5xx one, whatever storage holds, on every endpoint of
\* both deployments.
C8_UnsupportedIsClientError ==
    (req.dep \in {"local", "cloud"} /\ PlainName /\ UnsupportedName(req.name)) =>
        resp.status \in 400..499

\* C9 -- Vector CRS unification: every feature collection get_geojson_data
\* returns, in either deployment, for a source that carries a CRS, has its
\* coordinates in EPSG:4326.
C9_VectorInWGS84 ==
    (DispatchReached /\ resp.kind = "geojson" /\ req.src.crs # "none") =>
        resp.geo = ToWGS84(req.src.geo, req.src.crs)

\* The requested name is of the kind the requested endpoint serves
RouteServesName ==
    \/ req.route = "/api/get-data" /\ ReqExt \in {ExtTif, ExtGeojson, ExtGpkg, ExtShp}
    \/ req.route = "/api/metadata" /\ ReqExt = ExtTif

\* C10 -- Missing source: a request for a source file that does not exist,
\* on the image, vector or metadata path of either deployment, fails with the
\* source-not-found failure and a not-found (404) response.
C10_MissingIsNotFound ==
    (/\ req.dep \in {"local", "cloud"}
     /\ req.run # <<>> /\ req.name # <<>>
     /\ RouteServesName
     /\ ~req.had) =>
        /\ resp.status = 404
        /\ resp.error \in NotFoundErrors

\* The step handles an image request for an existing raster file, with
\* nothing failing, right after a request that was the same in every respect
SameImageRequestAgain ==
    /\ req.dep \in {"local", "cloud"} /\ req'.dep = req.dep
    /\ req.route = "/api/get-data" /\ req'.route = req.route
    /\ req.run # <<>> /\ req'.run = req.run
    /\ PlainName /\ req'.name = req.name
    /\ ReqExt = ExtTif
    /\ req.had /\ IsRaster(req.src)
    /\ req.dl = "ok" /\ req'.dl = "ok"

\* C11 -- Idempotence: the second of two successive image requests for the
\* same raster file, nothing else writing to storage in between, gets the
\* same response as the first: the same success or failure and the same
\* grayscale bytes.
C11_Idempotent == [][ SameImageRequestAgain => resp' = resp ]_vars

\* C12 -- Temporary artifact release: once a request has finished, in either
\* deployment and on whatever exit path, no temporary output PNG is left in
\* the data folder or in /tmp.
C12_NoTempPngLeft ==
    \A p \in DOMAIN store \cup DOMAIN tmp : ~EndsWith(p, TempSuffix)

\* Thread t holds a temporary PNG that it has written and still has to send
InFlight(t) == thr[t].pc = "processed" /\ thr[t].error = ""

\* C13 -- Collision-free temporary paths: two requests in flight at the same
\* time use distinct temporary PNG paths, also when they name the same run
\* and file.
C13_DistinctTempPaths ==
    \A t1, t2 \in Threads :
        (t1 # t2 /\ InFlight(t1) /\ InFlight(t2)) => thr[t1].png_path # thr[t2].png_path

\* C14 -- Source is never mutated: for every name dispatch sends to the
\* raster handler, process_tif_to_png writes to a path other than the source
\* path, and after the request the source file holds what it held before.
C14_SourceNotMutated ==
    /\ (req.dep = "local" /\ req.route = "/api/get-data" /\ ReqExt = ExtTif /\ req.had) =>
           /\ LocalTempPngPath(FullPath(req.run, req.name)) # FullPath(req.run, req.name)
           /\ FullPath(req.run, req.name) \in DOMAIN store
           /\ store[FullPath(req.run, req.name)] = req.src
    /\ (req.dep = "cloud" /\ req.route = "/api/get-data" /\ DispatchReached
            /\ EndsWithAny(req.name, RASTER_FILES)) =>
           /\ CloudTempPngPath(LocalPath(req.run, req.name)) # LocalPath(req.run, req.name)
           /\ bucket[S3Key(req.run, req.name)] = req.src

\* C15 -- after a lambda_handler invocation that got as far as the download,
\* whatever path it returned on, the downloaded copy at local_path does not
\* exist.
C15_LocalCopyRemoved ==
    (req.dep = "cloud" /\ req.run # <<>> /\ req.name # <<>>) =>
        LocalPath(req.run, req.name) \notin DOMAIN tmp

\* C15 witness: the handler raised after the PNG was written (reading it back
\* failed): the PNG is still in /tmp, the downloaded copy is not
C15_Witness ==
    /\ req.dep = "cloud" /\ req.dl = "read" /\ req.had
    /\ resp.error = "read failed"
    /\ CloudTempPngPath(LocalPath(req.run, req.name)) \in DOMAIN tmp
    /\ LocalPath(req.run, req.name) \notin DOMAIN tmp

====
